---- MODULE Spec2Model ----
(***************************************************************************)
(* Model of the recommendation pipeline of src/app/main.py:                *)
(* Retriever -> CandidateBuilder -> Scorer -> LLM Re-Ranker -> Validator   *)
(* -> Orchestrator output, on top of the product repository of             *)
(* src/app/database_repository.py.                                         *)
(*                                                                         *)
(* Products are immutable catalog records; the model keeps them in a       *)
(* static table (Product) and the state holds product ids.                 *)
(***************************************************************************)
EXTENDS Integers, Sequences, FiniteSets, TLC

(***************************************************************************)
(* Bounds of the model                                                     *)
(***************************************************************************)
\* longest hand-picked part of a catalog
MaxCatalog == 2
\* largest limit a request asks for
MaxLimit == 2
\* longest recommendation_ids list in a model response
MaxRecIds == 2
\* number of identical filler products that may follow the hand-picked part
FillerCount == 31
\* longest id list handed to the Validator on its own
MaxPick == 2
MaxPoolCalls == 2

(***************************************************************************)
(* Python values                                                           *)
(***************************************************************************)
\* None, and the JSON booleans, as attribute values (attribute values are
\* strings in the model; these three are not strings of the catalog)
NoneV == "<None>"
TrueV == "<True>"
FalseV == "<False>"

\* Python truthiness of an attribute value
Truthy(v) == v \notin {NoneV, FalseV, ""}

\* dict.get(key): None when the key is absent
Get(attrs, k) == IF k \in DOMAIN attrs THEN attrs[k] ELSE NoneV

\* s[:n] with Python's meaning of a negative n
PySlice(s, n) ==
    LET len == Len(s)
        m == IF n >= 0 THEN (IF n < len THEN n ELSE len)
                       ELSE (IF len + n > 0 THEN len + n ELSE 0)
    IN SubSeq(s, 1, m)

Range(s) == {s[i] : i \in 1..Len(s)}

\* sequences of pairwise distinct elements of S, of length at most n
RECURSIVE DistinctSeqs(_, _)
DistinctSeqs(S, n) ==
    IF n = 0 THEN {<<>>}
    ELSE LET shorter == DistinctSeqs(S, n - 1)
             longest == {t \in shorter : Len(t) = n - 1}
             grown == UNION {{Append(t, x) : x \in S \ Range(t)} : t \in longest}
         IN shorter \cup grown

\* sequences over S of length at most n
RECURSIVE BoundedSeqs(_, _)
BoundedSeqs(S, n) ==
    IF n = 0 THEN {<<>>}
    ELSE LET shorter == BoundedSeqs(S, n - 1)
         IN shorter \cup {Append(s, x) : s \in {t \in shorter : Len(t) = n - 1},
                                         x \in S}

(***************************************************************************)
(* The catalog records used by the model                                   *)
(***************************************************************************)
NoAttrs == [x \in {} |-> NoneV]

FillerIds == 101..(100 + FillerCount)
FillerSeq == [i \in 1..FillerCount |-> 100 + i]

\* an id the model's response may name although no product carries it
UnknownId == 999

PrimaryIds == {1, 2, 3, 4, 5}

Table ==
    [i \in {1, 2, 3, 4, 5, 6, 11, 12, 13, 14, 21, 22, 23, 24, 31, 32, 33, 34,
             35, 36, 37, 38, 39, 41, 42, 43, 51, 52, 53, 54, 61, 62, 63} |->
     CASE i = 1 -> [id |-> 1, category |-> "speaker", brand |-> "Acme", model |-> "S1",
                    attributes |-> [required_voltage |-> "5V"],
                    tags |-> {"speaker", "audio", "bluetooth"}]
       [] i = 2 -> [id |-> 2, category |-> "printer", brand |-> "BrandX", model |-> "PX",
                    attributes |-> [series |-> "X100"],
                    tags |-> {"printer", "office"}]
       [] i = 3 -> [id |-> 3, category |-> "medical_equipment", brand |-> NoneV, model |-> NoneV,
                    attributes |-> NoAttrs,
                    tags |-> {"medical"}]
       [] i = 4 -> [id |-> 4, category |-> "laptop", brand |-> "Generic", model |-> "L1",
                    attributes |-> NoAttrs,
                    tags |-> {"laptop", "work"}]
       [] i = 5 -> [id |-> 5, category |-> "phone", brand |-> "Samsung", model |-> "A57",
                    attributes |-> [port_type |-> "usb_c"],
                    tags |-> {"phone", "android", "samsung", "A57"}]
       [] i = 6 -> [id |-> 6, category |-> "watch_strap", brand |-> "Acme", model |-> NoneV,
                    attributes |-> [size_mm |-> "20"],
                    tags |-> {"watch", "strap"}]
       \* around the speaker
       [] i = 11 -> [id |-> 11, category |-> "phone", brand |-> "Acme", model |-> "P1",
                     attributes |-> NoAttrs,
                     tags |-> {"speaker", "audio"}]
       [] i = 12 -> [id |-> 12, category |-> "speaker_stand", brand |-> "Acme", model |-> NoneV,
                     attributes |-> [compatible_with_speaker |-> TrueV],
                     tags |-> {"speaker"}]
       [] i = 13 -> [id |-> 13, category |-> "speaker", brand |-> "Other", model |-> "S2",
                     attributes |-> NoAttrs,
                     tags |-> {}]
       [] i = 14 -> [id |-> 14, category |-> "charger", brand |-> "Other", model |-> NoneV,
                     attributes |-> [output_voltage |-> "5V"],
                     tags |-> {}]
       \* around the printer
       [] i = 21 -> [id |-> 21, category |-> "ink_cartridge", brand |-> "BrandY", model |-> NoneV,
                     attributes |-> [compatible_brand |-> "BrandY"],
                     tags |-> {"printer"}]
       [] i = 22 -> [id |-> 22, category |-> "ink_cartridge", brand |-> "BrandX", model |-> NoneV,
                     attributes |-> [compatible_brand |-> "BrandX", compatible_series |-> "X100"],
                     tags |-> {}]
       [] i = 23 -> [id |-> 23, category |-> "toner", brand |-> "BrandY", model |-> NoneV,
                     attributes |-> [compatible_brand |-> "BrandY", cross_compatible |-> TrueV],
                     tags |-> {}]
       [] i = 24 -> [id |-> 24, category |-> "toner", brand |-> "BrandY", model |-> NoneV,
                     attributes |-> [compatible_brand |-> "", cross_compatible |-> FalseV],
                     tags |-> {}]
       \* around the medical device
       [] i = 31 -> [id |-> 31, category |-> "phone", brand |-> "Acme", model |-> "P2",
                     attributes |-> NoAttrs,
                     tags |-> {"medical"}]
       [] i = 32 -> [id |-> 32, category |-> "mask", brand |-> "Med", model |-> NoneV,
                     attributes |-> [compatible_with_medical_model |-> "M1"],
                     tags |-> {"medical"}]
       [] i = 33 -> [id |-> 33, category |-> "medical_equipment", brand |-> "Med", model |-> "M2",
                     attributes |-> NoAttrs,
                     tags |-> {}]
       [] i = 34 -> [id |-> 34, category |-> "charger", brand |-> "Med", model |-> NoneV,
                     attributes |-> [compatible_with_medical_model |-> "M1"],
                     tags |-> {}]
       [] i = 35 -> [id |-> 35, category |-> "mask", brand |-> NoneV, model |-> NoneV,
                     attributes |-> NoAttrs,
                     tags |-> {}]
       [] i = 36 -> [id |-> 36, category |-> "medical_equipment", brand |-> "Med", model |-> "M1",
                     attributes |-> NoAttrs,
                     tags |-> {"medical"}]
       [] i = 37 -> [id |-> 37, category |-> "medical_equipment", brand |-> "Other", model |-> "M3",
                     attributes |-> [compatible_with_medical_model |-> "M1"],
                     tags |-> {"medical"}]
       [] i = 38 -> [id |-> 38, category |-> "mask", brand |-> "Other", model |-> NoneV,
                     attributes |-> [compatible_brand |-> "Med"],
                     tags |-> {}]
       [] i = 39 -> [id |-> 39, category |-> "mask", brand |-> "Other", model |-> NoneV,
                     attributes |-> [compatible_model |-> "M1", compatible_brand |-> "Other"],
                     tags |-> {}]
       \* around the laptop (a category without a compatibility policy)
       [] i = 41 -> [id |-> 41, category |-> "laptop_bag", brand |-> "generic", model |-> NoneV,
                     attributes |-> [compatible_with |-> "laptop"],
                     tags |-> {}]
       [] i = 42 -> [id |-> 42, category |-> "mouse", brand |-> "Generic", model |-> NoneV,
                     attributes |-> NoAttrs,
                     tags |-> {"laptop", "work"}]
       [] i = 43 -> [id |-> 43, category |-> "laptop", brand |-> "Other", model |-> "L2",
                     attributes |-> NoAttrs,
                     tags |-> {"laptop"}]
       \* around the phone
       [] i = 51 -> [id |-> 51, category |-> "phone_case", brand |-> "Samsung", model |-> NoneV,
                     attributes |-> [compatible_model |-> "A57", compatible_brand |-> "Samsung"],
                     tags |-> {}]
       [] i = 52 -> [id |-> 52, category |-> "charger", brand |-> "Samsung", model |-> NoneV,
                     attributes |-> [port_type |-> "usb_c", compatible_brand |-> "Samsung"],
                     tags |-> {}]
       [] i = 53 -> [id |-> 53, category |-> "phone", brand |-> "Other", model |-> "B1",
                     attributes |-> NoAttrs,
                     tags |-> {}]
       [] i = 54 -> [id |-> 54, category |-> "charger", brand |-> NoneV, model |-> NoneV,
                     attributes |-> NoAttrs,
                     tags |-> {}]
       \* around the watch strap
       [] i = 61 -> [id |-> 61, category |-> "screen_guard", brand |-> "Acme", model |-> NoneV,
                     attributes |-> [compatible_with |-> TrueV],
                     tags |-> {"watch", "strap"}]
       [] i = 62 -> [id |-> 62, category |-> "watch_tool", brand |-> "Other", model |-> NoneV,
                     attributes |-> NoAttrs,
                     tags |-> {"watch"}]
       [] i = 63 -> [id |-> 63, category |-> "watch_box", brand |-> "Other", model |-> NoneV,
                     attributes |-> [size_mm |-> "20"],
                     tags |-> {"watch", "strap"}]]

\* filler product: an accessory that declares a generic compatibility
Filler(i) == [id |-> i, category |-> "case", brand |-> NoneV, model |-> NoneV,
              attributes |-> [compatible_with |-> TrueV], tags |-> {}]

Product(i) == IF i \in FillerIds THEN Filler(i) ELSE Table[i]

\* the products a catalog around a primary is drawn from (the primary included)
PoolOf(p) ==
    CASE p = 1 -> {1, 11, 12, 13}
      [] p = 2 -> {2, 21, 22, 23}
      [] p = 3 -> {3, 31, 32, 33}
      [] p = 4 -> {4, 41, 42, 43}
      [] p = 5 -> {5, 51, 52, 53}


(***************************************************************************)
(* Compatibility map and helpers                                           *)
(***************************************************************************)
PLACEHOLDER_BRANDS == {"generic", "unknown", "n/a", "", NoneV}

COMPATIBILITY_MAP ==
    [phone |-> {"phone", "phone_case", "screen_guard", "charger", "pouch", "earbuds", "power_bank"},
     watch_strap |-> {"watch_strap", "watch_tool", "spring_bar", "watch_box"},
     charger |-> {"cable", "adapter", "power_bank"},
     printer |-> {"ink_cartridge", "toner", "print_head", "maintenance_kit", "paper"},
     tv |-> {"soundbar", "home_theatre", "remote", "wall_mount"},
     pan |-> {"scrubber", "spatula", "lid", "pan_care_kit"},
     nebulizer |-> {"mask", "filters", "tubing", "mouthpiece"},
     medical_equipment |-> {"medical_equipment", "medical_supplies", "medical_accessory",
                            "filters", "mask", "tubing", "mouthpiece"},
     speaker |-> {"speaker", "speaker_stand", "aux_cable", "bluetooth_transmitter", "case"}]

\* COMPATIBILITY_MAP.get(category) is not None
HasPolicy(cat) == cat \in DOMAIN COMPATIBILITY_MAP

\* COMPATIBILITY_MAP.get(category, set())
AllowedFor(cat) == IF HasPolicy(cat) THEN COMPATIBILITY_MAP[cat] ELSE {}

\* str(brand).strip().lower(), on the brand strings of the catalog
StripLower(b) ==
    CASE b = "Generic" -> "generic"
      [] b = "Acme" -> "acme"
      [] b = "Other" -> "other"
      [] b = "Med" -> "med"
      [] b = "Samsung" -> "samsung"
      [] b = "BrandX" -> "brandx"
      [] b = "BrandY" -> "brandy"
      [] OTHER -> b

is_meaningful_brand(b) ==
    IF b = NoneV THEN FALSE ELSE StripLower(b) \notin PLACEHOLDER_BRANDS

tag_overlap_count(a_tags, b_tags) ==
    IF a_tags = {} \/ b_tags = {} THEN 0 ELSE Cardinality(a_tags \cap b_tags)

\* categories the scoring policy treats as medical accessories
MedicalAccessoryCategories ==
    {"medical_supplies", "medical_accessory", "filters", "mask", "tubing", "mouthpiece"}

attribute_match_score(p, c) ==
    LET P == Product(p)
        C == Product(c)
        a == C.attributes
        phone ==
            IF P.category = "phone" /\ C.category \in {"phone_case", "screen_guard", "pouch", "charger"}
            THEN (IF /\ Truthy(Get(a, "compatible_model"))
                     /\ Truthy(Get(a, "compatible_brand"))
                     /\ Get(a, "compatible_model") = P.model
                     /\ Get(a, "compatible_brand") = P.brand
                  THEN 50 ELSE 0)
                 + (IF /\ C.category = "charger"
                       /\ Get(a, "port_type") = Get(P.attributes, "port_type")
                    THEN 25 ELSE 0)
            ELSE 0
        strap ==
            IF /\ P.category = "watch_strap"
               /\ Truthy(Get(a, "size_mm"))
               /\ Truthy(Get(P.attributes, "size_mm"))
               /\ Get(a, "size_mm") = Get(P.attributes, "size_mm")
            THEN 40 ELSE 0
        printer ==
            IF P.category = "printer" /\ C.category \in {"ink_cartridge", "toner", "print_head"}
            THEN (IF /\ Truthy(Get(a, "compatible_series"))
                     /\ Truthy(Get(P.attributes, "series"))
                     /\ Get(a, "compatible_series") = Get(P.attributes, "series")
                  THEN 50 ELSE 0)
                 + (IF /\ Truthy(Get(a, "compatible_brand"))
                       /\ Get(a, "compatible_brand") = P.brand
                    THEN 20 ELSE 0)
            ELSE 0
        nebulizer ==
            IF /\ P.category = "nebulizer"
               /\ C.category \in {"mask", "filters", "tubing"}
               /\ \/ Get(a, "compatible_model") = P.model
                  \/ Get(a, "compatible_brand") = P.brand
            THEN 40 ELSE 0
        speaker ==
            IF /\ P.category = "speaker"
               /\ \/ Truthy(Get(a, "compatible_with_speaker"))
                  \/ "speaker" \in C.tags
            THEN 20 ELSE 0
        medical ==
            IF P.category = "medical_equipment" /\ C.category \in MedicalAccessoryCategories
            THEN (IF /\ Truthy(Get(a, "compatible_model"))
                     /\ Truthy(Get(a, "compatible_brand"))
                     /\ \/ Get(a, "compatible_model") = P.model
                        \/ Get(a, "compatible_brand") = P.brand
                  THEN 80 ELSE 0)
                 + (IF Get(a, "compatible_with_medical_model") = P.model THEN 60 ELSE 0)
                 + (IF tag_overlap_count(P.tags, C.tags) > 0 THEN 10 ELSE 0)
            ELSE 0
    IN phone + strap + printer + nebulizer + speaker + medical

(***************************************************************************)
(* Repository: get_all_products                                            *)
(***************************************************************************)
\* _load_data: the Postgres rows, else the JSON rows; the JSON branch is
\* nested in the `if USE_POSTGRES` block, so the function falls off its end
\* and returns None when Postgres is not enabled
_load_data(use_pg, pg, json) ==
    IF use_pg
    THEN [none |-> FALSE, rows |-> IF pg # <<>> THEN pg ELSE json]
    ELSE [none |-> TRUE, rows |-> <<>>]

\* a record that Product.parse_obj accepts
IsValidRecord(i) == i \in DOMAIN Table \cup FillerIds

\* _to_products: `if not data: return []` covers None and the empty list;
\* records that do not parse are skipped
_to_products(data) ==
    IF data.none \/ data.rows = <<>> THEN <<>> ELSE SelectSeq(data.rows, IsValidRecord)

get_all_products(use_pg, pg, json) == _to_products(_load_data(use_pg, pg, json))

(***************************************************************************)
(* RetrieverAgent.retrieve                                                 *)
(***************************************************************************)
RetrieveMaxResults == 1000

\* the two `prioritized.append` branches
IsPrioritized(p, c) ==
    \/ Product(c).category = Product(p).category
    \/ /\ is_meaningful_brand(Product(p).brand)
       /\ is_meaningful_brand(Product(c).brand)
       /\ Product(c).brand = Product(p).brand

\* variant: the primary is not skipped
retrieve_keep_primary(p, products, max_results) ==
    LET First(c) == IsPrioritized(p, c)
        Later(c) == ~IsPrioritized(p, c)
    IN PySlice(SelectSeq(products, First) \o SelectSeq(products, Later), max_results)

retrieve(p, products, max_results) ==
    LET NotPrimary(c) == Product(c).id # Product(p).id
        others == SelectSeq(products, NotPrimary)
        First(c) == IsPrioritized(p, c)
        Later(c) == ~IsPrioritized(p, c)
    IN PySlice(SelectSeq(others, First) \o SelectSeq(others, Later), max_results)

(***************************************************************************)
(* CandidateBuilderAgent.build                                             *)
(***************************************************************************)
\* variant: only compatible_model counts as an explicit attribute
has_explicit_attr_model_only(p, c) ==
    Truthy(Get(Product(c).attributes, "compatible_model"))

has_explicit_attr(p, c) ==
    LET a == Product(c).attributes
    IN \/ Truthy(Get(a, "compatible_model"))
       \/ Truthy(Get(a, "compatible_brand"))
       \/ Truthy(Get(a, "compatible_with"))
       \/ Truthy(Get(a, "compatible_with_" \o Product(p).category))
       \/ Truthy(Get(a, "compatible_with_speaker"))
       \/ Truthy(Get(a, "compatible_with_medical_model"))

\* variant: category membership is not enforced
BuildCategoryAllowed_any(p, c) == TRUE

\* `if p.category not in allowed: continue`
BuildCategoryAllowed(p, c) ==
    Product(c).category \in COMPATIBILITY_MAP[Product(p).category]

\* variant: without a map entry every candidate is admitted
BuildKeeps_permissive(p, c) ==
    LET P == Product(p)
        C == Product(c)
        overlap == tag_overlap_count(P.tags, C.tags)
        evidence == has_explicit_attr(p, c) \/ overlap >= 2
    IN /\ C.id # P.id
       /\ HasPolicy(P.category)
            => /\ BuildCategoryAllowed(p, c)
               /\ (C.category # P.category => evidence)
       /\ ~(P.category = "watch_strap" /\ C.category = "screen_guard")

BuildKeeps(p, c) ==
    LET P == Product(p)
        C == Product(c)
        overlap == tag_overlap_count(P.tags, C.tags)
        evidence == has_explicit_attr(p, c) \/ overlap >= 2
    IN /\ C.id # P.id
       /\ IF HasPolicy(P.category)
          THEN /\ BuildCategoryAllowed(p, c)
               /\ (C.category # P.category => evidence)
          ELSE evidence
       /\ ~(P.category = "watch_strap" /\ C.category = "screen_guard")

build(p, raw_candidates) ==
    LET Keep(c) == BuildKeeps(p, c)
    IN SelectSeq(raw_candidates, Keep)

(***************************************************************************)
(* ScorerAgent.score                                                       *)
(***************************************************************************)
\* Product.model_dump(): the declared fields of the schema only
\* the image_url column of a catalog record (the queries select it; the
\* Product schema has no such field)
RecordImageUrl(i) ==
    IF i \in {12, 22, 32, 41, 51} THEN "https://img.example/p.png" ELSE NoneV

model_dump(c) ==
    LET C == Product(c)
    IN [id |-> C.id, category |-> C.category, brand |-> C.brand, model |-> C.model,
        attributes |-> C.attributes, tags |-> C.tags]

\* c.model_dump().get("image_url")
DumpedImageUrl(c) ==
    IF "image_url" \in DOMAIN model_dump(c) THEN model_dump(c)["image_url"] ELSE NoneV

\* the value stored as _reco_score
reco_score(p, c) ==
    LET P == Product(p)
        C == Product(c)
    IN attribute_match_score(p, c)
       + (IF /\ is_meaningful_brand(P.brand)
             /\ is_meaningful_brand(C.brand)
             /\ P.brand = C.brand
          THEN 30 ELSE 0)
       + 10 * tag_overlap_count(P.tags, C.tags)
       + (IF C.category \in AllowedFor(P.category) THEN 20 ELSE 0)
       + (IF Truthy(DumpedImageUrl(c)) THEN 2 ELSE 0)

\* list.sort(key=score, reverse=True): stable, equal scores keep their order
RECURSIVE InsertByScore(_, _, _)
InsertByScore(p, sorted, c) ==
    IF sorted = <<>> THEN <<c>>
    ELSE IF reco_score(p, Head(sorted)) >= reco_score(p, c)
         THEN <<Head(sorted)>> \o InsertByScore(p, Tail(sorted), c)
         ELSE <<c>> \o sorted

RECURSIVE SortByScore(_, _)
SortByScore(p, cands) ==
    IF cands = <<>> THEN <<>>
    ELSE InsertByScore(p, SortByScore(p, SubSeq(cands, 1, Len(cands) - 1)),
                       cands[Len(cands)])

score(p, cands) == SortByScore(p, cands)

\* top_m_limit
TopMLimit == 30

(***************************************************************************)
(* ValidatorAgent.validate                                                 *)
(***************************************************************************)
\* categories the Validator treats as medical
ValidatorMedicalCategories ==
    {"medical_supplies", "medical_accessory", "filters", "mask", "tubing", "mouthpiece",
     "medical_equipment"}

\* variant: the allowed-category policy is not applied
AllowedCategoryRule_off(p, c) == TRUE

\* `allowed is not None and c.category not in allowed` does not block
AllowedCategoryRule(p, c) ==
    HasPolicy(Product(p).category)
        => Product(c).category \in COMPATIBILITY_MAP[Product(p).category]

explicit_ok(c) ==
    LET a == Product(c).attributes
    IN \/ Truthy(Get(a, "compatible_with_speaker"))
       \/ Truthy(Get(a, "compatible_with"))
       \/ Truthy(Get(a, "cross_compatible_with_speaker"))

SpeakerPhoneRule(p, c) ==
    (Product(p).category = "speaker" /\ Product(c).category = "phone") => explicit_ok(c)

power_match(p, c) ==
    LET pa == Product(p).attributes
        ca == Product(c).attributes
        speaker_req == IF Truthy(Get(pa, "required_voltage"))
                       THEN Get(pa, "required_voltage") ELSE Get(pa, "required_input")
        charger_out == IF Truthy(Get(ca, "output_voltage"))
                       THEN Get(ca, "output_voltage") ELSE Get(ca, "output")
    IN Truthy(speaker_req) /\ Truthy(charger_out) /\ speaker_req = charger_out

SpeakerChargerRule(p, c) ==
    (Product(p).category = "speaker" /\ Product(c).category \in {"charger", "power_bank"})
        => (explicit_ok(c) \/ power_match(p, c))

explicit_med_ok(p, c) ==
    LET a == Product(c).attributes
    IN \/ Truthy(Get(a, "compatible_with_medical_model"))
       \/ Get(a, "compatible_brand") = Product(p).brand
       \/ Get(a, "compatible_model") = Product(p).model

MedicalRule(p, c) ==
    (/\ Product(p).category = "medical_equipment"
     /\ Product(c).category \notin ValidatorMedicalCategories) => explicit_med_ok(p, c)

\* variant: the brand comparison is inverted
PrinterRule_inverted(p, c) ==
    LET comp_brand == Get(Product(c).attributes, "compatible_brand")
    IN (/\ Product(p).category = "printer"
        /\ Product(c).category \in {"ink_cartridge", "toner"}
        /\ Truthy(comp_brand)
        /\ comp_brand = Product(p).brand)
           => Truthy(Get(Product(c).attributes, "cross_compatible"))

PrinterRule(p, c) ==
    LET comp_brand == Get(Product(c).attributes, "compatible_brand")
    IN (/\ Product(p).category = "printer"
        /\ Product(c).category \in {"ink_cartridge", "toner"}
        /\ Truthy(comp_brand)
        /\ comp_brand # Product(p).brand)
           => Truthy(Get(Product(c).attributes, "cross_compatible"))

\* the rules one id goes through, in the order of the loop body
PassesRules(p, c) ==
    /\ AllowedCategoryRule(p, c)
    /\ SpeakerPhoneRule(p, c)
    /\ SpeakerChargerRule(p, c)
    /\ MedicalRule(p, c)
    /\ PrinterRule(p, c)

validate(p, ids, shortlist) ==
    LET Keep(rid) == rid \in Range(shortlist) /\ PassesRules(p, rid)
    IN SelectSeq(ids, Keep)

(***************************************************************************)
(* LLMReRankerAgent.rerank                                                 *)
(***************************************************************************)
\* One value of the recommendation_ids list of a response:
\*   int  - a JSON number v          (int(v) = v)
\*   str  - a JSON string of digits  (int("v") = v)
\*   junk - a JSON string or null for which int() raises
RawInt(v) == [t |-> "int", v |-> v]
RawStr(v) == [t |-> "str", v |-> v]
RawJunk == [t |-> "junk", v |-> 0]

\* int(rid) succeeds
Coerces(r) == r.t \in {"int", "str"}

\* The text of a response, by what json.loads and the code make of it:
\*   no_text    - response.text is None
\*   not_json   - text that json.loads rejects
\*   not_object - valid JSON that is not an object (a list, a number)
\*   bad_ids    - an object whose recommendation_ids is not a list
\*   object     - an object with a recommendation_ids list and optional reasons
NoReasons == [x \in {} |-> ""]

TextOther(kind) == [kind |-> kind, ids |-> <<>>, reasons |-> NoReasons]
TextObject(ids, reasons) == [kind |-> "object", ids |-> ids, reasons |-> reasons]

\* the return value of rerank: (None, {}) or (ids, reasons); raised when an
\* exception leaves the method
RetNone == [raised |-> FALSE, none |-> TRUE, ids |-> <<>>, reasons |-> NoReasons]
RetRaised == [raised |-> TRUE, none |-> TRUE, ids |-> <<>>, reasons |-> NoReasons]
RetIds(ids, reasons) == [raised |-> FALSE, none |-> FALSE, ids |-> ids, reasons |-> reasons]

\* the loop over rec_ids: coerce, keep shortlist members, drop duplicates
RECURSIVE clean_ids(_, _, _)
clean_ids(rec, candidate_ids, acc) ==
    IF rec = <<>> THEN acc
    ELSE LET rid == Head(rec)
         IN IF Coerces(rid) /\ rid.v \in candidate_ids /\ rid.v \notin Range(acc)
            THEN clean_ids(Tail(rec), candidate_ids, Append(acc, rid.v))
            ELSE clean_ids(Tail(rec), candidate_ids, acc)

\* `return clean_ids[:limit], reasons`
CleanTruncated(clean, limit) == PySlice(clean, limit)

\* variant: an empty sanitised list is returned as a result
ParseResponse_keep_empty(text, shortlist, limit) ==
    CASE text.kind = "no_text" -> RetRaised
      [] text.kind = "not_json" -> RetNone
      [] text.kind = "not_object" -> RetRaised
      [] text.kind = "bad_ids" -> RetNone
      [] text.kind = "object" ->
            RetIds(CleanTruncated(clean_ids(text.ids, Range(shortlist), <<>>), limit),
                   text.reasons)

\* from `json.loads(response.text)` to the return
ParseResponse(text, shortlist, limit) ==
    CASE text.kind = "no_text" -> RetRaised      \* json.loads(None): TypeError
      [] text.kind = "not_json" -> RetNone       \* json.JSONDecodeError is caught
      [] text.kind = "not_object" -> RetRaised   \* parsed.get: AttributeError
      [] text.kind = "bad_ids" -> RetNone
      [] text.kind = "object" ->
            LET clean == clean_ids(text.ids, Range(shortlist), <<>>)
            IN IF clean = <<>> THEN RetNone
               ELSE RetIds(CleanTruncated(clean, limit), text.reasons)

\* models_to_try without the unset entries
ModelsToTry(primary_model, fallback_model) ==
    (IF primary_model THEN <<"primary">> ELSE <<>>)
        \o (IF fallback_model THEN <<"fallback">> ELSE <<>>)

\* What one generate_content call does:
\*   client_error - raises genai_errors.ClientError (caught, next model)
\*   other_error  - raises anything else: ServerError, a timeout, a transport
\*                  error (not caught)
\*   text         - returns a response
\* A run of the loop: the calls made, how each ended, and how the last one
\* ended.
LLMRuns(models, texts) ==
    LET Outcomes(k, last) == [i \in 1..k |-> IF i < k THEN "client_error" ELSE last]
        Run(k, last, t) ==
            [calls |-> SubSeq(models, 1, k), outcomes |-> Outcomes(k, last),
             last |-> last, text |-> t]
    IN IF models = <<>>
       THEN {Run(0, "none", TextOther("none"))}
       ELSE UNION {
              {Run(k, "other_error", TextOther("none"))}
              \cup {Run(k, "text", t) : t \in texts}
              \cup (IF k = Len(models)
                    THEN {Run(k, "client_error", TextOther("none"))}
                    ELSE {})
              : k \in 1..Len(models)}

rerank(run, shortlist, limit) ==
    CASE run.last = "none" -> RetNone            \* no model configured
      [] run.last = "client_error" -> RetNone    \* response is None
      [] run.last = "other_error" -> RetRaised
      [] run.last = "text" -> ParseResponse(run.text, shortlist, limit)

(***************************************************************************)
(* State                                                                   *)
(***************************************************************************)
VARIABLES
    usePostgres,      \* config.USE_POSTGRES
    pgRows,           \* rows the products table yields (<<>>: none, or failure)
    jsonRows,         \* records of the local JSON products file
    primaryModel,     \* GEMINI_MODEL is set
    fallbackModel,    \* GEMINI_FALLBACK_MODEL is set
    primary,          \* the primary product of the request
    limit,            \* the limit of the request
    pc,               \* position of OrchestratorAgent.recommend
    raw,              \* raw_candidates
    candidates,       \* output of the Candidate Builder
    scored,           \* output of the Scorer
    top_m,            \* the shortlist
    run,              \* what the model client did during rerank
    ret,              \* what rerank returned
    rec_ids,          \* rec_ids handed to the Validator
    reasons,          \* reasons after the fallback substitution
    validated,        \* what validate returned
    valid_ids,        \* valid_ids after the second fallback
    recommendations,  \* the list recommend returns
    raised,           \* an exception left recommend
    stages,           \* the agents invoked so far
    heap,             \* the Product objects alive, by address
    reqs,             \* the recommend invocations in flight, by request
    loaded,           \* what get_all_products returned to a direct caller
    call,             \* a helper called directly: its arguments and its result
    pool              \* the module-global connection pool and its callers

vars == <<usePostgres, pgRows, jsonRows, primaryModel, fallbackModel, primary, limit, pc,
          raw, candidates, scored, top_m, run, ret, rec_ids, reasons, validated,
          valid_ids, recommendations, raised, stages, heap, reqs, loaded,
          call, pool>>

\* what a single pipeline invocation over ids leaves alone
aside == <<heap, reqs, loaded, call, pool>>

\* what the specifications without a direct helper call leave alone
helper == <<call, pool>>

NoCall == <<>>

NoPool == <<>>

HelperIdle == call = NoCall /\ pool = NoPool

NoHeap == <<>>

NoReqs == <<>>

NoneLoaded == <<>>

AsideIdle == heap = NoHeap /\ reqs = NoReqs /\ loaded = NoneLoaded /\ HelperIdle

config == <<usePostgres, pgRows, jsonRows, primaryModel, fallbackModel, primary, limit>>

NoRun == [calls |-> <<>>, outcomes |-> <<>>, last |-> "none", text |-> TextOther("none")]

\* the limits of a request: RecommendationRequest.limit is any int, -1 is the
\* negative one of the model
Limits == (0 - 1)..MaxLimit

\* catalogs around a primary: up to MaxCatalog hand-picked products in any
\* order, or the filler block, alone or after one hand-picked product
Catalogs(p) ==
    DistinctSeqs(PoolOf(p), MaxCatalog)
        \cup {FillerSeq}
        \cup {<<x>> \o FillerSeq : x \in PoolOf(p)}

\* the ids a response may list: the hand-picked products of the catalog
\* (shortlisted or not), the first and the last filler, and an id of no
\* product
NamedIds(catalog) ==
    (Range(catalog) \ FillerIds)
        \cup (Range(catalog) \cap {101, 100 + FillerCount})
        \cup {UnknownId}

RawVals(catalog) == {RawInt(i) : i \in NamedIds(catalog)}

CoercedIds(ids) == {ids[i].v : i \in {j \in 1..Len(ids) : Coerces(ids[j])}}

Texts(catalog) ==
    {TextOther(k) : k \in {"no_text", "not_json", "not_object", "bad_ids"}}
        \cup {TextObject(ids, NoReasons) : ids \in BoundedSeqs(RawVals(catalog), MaxRecIds)}
        \cup {TextObject(ids, [i \in CoercedIds(ids) |-> "because"]) :
                ids \in BoundedSeqs(RawVals(catalog), MaxRecIds) \ {<<>>}}

Init ==
    /\ usePostgres \in BOOLEAN
    /\ primary \in PrimaryIds
    /\ pgRows \in Catalogs(primary)
    /\ jsonRows = <<>>
    /\ primaryModel \in BOOLEAN
    /\ fallbackModel \in BOOLEAN
    /\ limit \in Limits
    /\ pc = "retrieve"
    /\ raw = <<>>
    /\ candidates = <<>>
    /\ scored = <<>>
    /\ top_m = <<>>
    /\ run = NoRun
    /\ ret = RetNone
    /\ rec_ids = <<>>
    /\ reasons = NoReasons
    /\ validated = <<>>
    /\ valid_ids = <<>>
    /\ recommendations = <<>>
    /\ raised = FALSE
    /\ stages = {}
    /\ AsideIdle

(***************************************************************************)
(* OrchestratorAgent.recommend, stage by stage                             *)
(***************************************************************************)
\* 1) self.retriever.retrieve(primary, max_results=1000)
Retrieve ==
    /\ pc = "retrieve"
    /\ raw' = retrieve(primary, get_all_products(usePostgres, pgRows, jsonRows),
                       RetrieveMaxResults)
    /\ stages' = stages \cup {"retriever"}
    /\ pc' = "build"
    /\ UNCHANGED <<config, aside, candidates, scored, top_m, run, ret, rec_ids, reasons,
                   validated, valid_ids, recommendations, raised>>

\* variant: no early return on an empty candidate list
AfterBuild_continue(cands) == "score"

\* `if not candidates: return []`
AfterBuild(cands) == IF cands = <<>> THEN "done" ELSE "score"

\* 2) self.builder.build(primary, raw_candidates)
Build ==
    /\ pc = "build"
    /\ candidates' = build(primary, raw)
    /\ stages' = stages \cup {"builder"}
    /\ pc' = AfterBuild(candidates')
    /\ UNCHANGED <<config, aside, raw, scored, top_m, run, ret, rec_ids, reasons,
                   validated, valid_ids, recommendations, raised>>

\* variant: the whole scored list is handed on
Shortlist_all(s) == s

\* top_m = scored[:top_m_limit]
Shortlist(s) == PySlice(s, TopMLimit)

\* 3) self.scorer.score(primary, candidates) and the shortlist
Score ==
    /\ pc = "score"
    /\ scored' = score(primary, candidates)
    /\ top_m' = Shortlist(scored')
    /\ stages' = stages \cup {"scorer"}
    /\ pc' = "rerank"
    /\ UNCHANGED <<config, aside, raw, candidates, run, ret, rec_ids, reasons,
                   validated, valid_ids, recommendations, raised>>

\* 4) self.reranker.rerank(primary, top_m, limit); an exception it does not
\*    catch leaves recommend
Rerank ==
    /\ pc = "rerank"
    /\ \E r \in LLMRuns(ModelsToTry(primaryModel, fallbackModel), Texts(pgRows)) :
         /\ run' = r
         /\ ret' = rerank(r, top_m, limit)
    /\ raised' = ret'.raised
    /\ stages' = stages \cup {"reranker"}
    /\ pc' = IF ret'.raised THEN "done" ELSE "validate"
    /\ UNCHANGED <<config, aside, raw, candidates, scored, top_m, rec_ids, reasons,
                   validated, valid_ids, recommendations>>

\* `if not rec_ids:` the deterministic top-N replaces the re-ranker's result
RerankFailed(r) == r.none \/ r.ids = <<>>

FallbackIds(shortlist, lim) == PySlice(shortlist, lim)

SecondFallback_same_cat_only(p, shortlist, lim) ==
    LET SameCat(c) == Product(c).category = Product(p).category
    IN PySlice(SelectSeq(shortlist, SameCat), lim)

\* `same_cat[:limit] or [c.id for c in top_m[:limit]]`
SecondFallback(p, shortlist, lim) ==
    LET SameCat(c) == Product(c).category = Product(p).category
        same_cat == PySlice(SelectSeq(shortlist, SameCat), lim)
    IN IF same_cat # <<>> THEN same_cat ELSE PySlice(shortlist, lim)

\* `if not valid_ids:` the second fallback replaces the Validator's result
AfterValidate(p, v, shortlist, lim) ==
    IF v = <<>> THEN SecondFallback(p, shortlist, lim) ELSE v

\* the first fallback, 5) self.validator.validate(primary, rec_ids, top_m) and
\* the second fallback
Validate ==
    /\ pc = "validate"
    /\ rec_ids' = IF RerankFailed(ret) THEN FallbackIds(top_m, limit) ELSE ret.ids
    /\ reasons' = IF RerankFailed(ret) THEN NoReasons ELSE ret.reasons
    /\ validated' = validate(primary, rec_ids', top_m)
    /\ valid_ids' = AfterValidate(primary, validated', top_m, limit)
    /\ stages' = stages \cup {"validator"}
    /\ pc' = "finalize"
    /\ UNCHANGED <<config, aside, raw, candidates, scored, top_m, run, ret,
                   recommendations, raised>>

\* reasons.get(str(rid)) or reasons.get(rid) or None; the keys of a JSON
\* object are strings, the model keys reasons by the id they spell
ReasonOf(rs, rid) ==
    IF rid \in DOMAIN rs /\ Truthy(rs[rid]) THEN rs[rid] ELSE NoneV

\* `for rid in valid_ids[:limit]`
OutputIds(v, lim) == PySlice(v, lim)

\* 6) the ordered output
Finalize ==
    /\ pc = "finalize"
    /\ LET Known(rid) == rid \in Range(top_m) \cup Range(scored)
           ids == SelectSeq(OutputIds(valid_ids, limit), Known)
       IN recommendations' =
            [i \in 1..Len(ids) |-> [product |-> ids[i], reason |-> ReasonOf(reasons, ids[i])]]
    /\ pc' = "done"
    /\ UNCHANGED <<config, aside, raw, candidates, scored, top_m, run, ret, rec_ids, reasons,
                   validated, valid_ids, raised, stages>>

Next == Retrieve \/ Build \/ Score \/ Rerank \/ Validate \/ Finalize

Spec == Init /\ [][Next]_vars

(***************************************************************************)
(* ValidatorAgent.validate called on its own: any shortlist, any id list   *)
(***************************************************************************)
\* further products a shortlist handed to the Validator may hold
ValidatorPool(p) ==
    PoolOf(p) \cup (CASE p = 1 -> {14} [] p = 2 -> {24} [] p = 3 -> {34} [] OTHER -> {})

InitValidator ==
    /\ usePostgres = FALSE
    /\ pgRows = <<>>
    /\ jsonRows = <<>>
    /\ primaryModel = FALSE
    /\ fallbackModel = FALSE
    /\ primary \in PrimaryIds
    /\ limit = 0
    /\ pc = "validator_call"
    /\ raw = <<>>
    /\ candidates = <<>>
    /\ scored = <<>>
    /\ top_m \in DistinctSeqs(ValidatorPool(primary), MaxCatalog)
    /\ run = NoRun
    /\ ret = RetNone
    /\ rec_ids \in BoundedSeqs(Range(top_m) \cup {UnknownId}, MaxPick)
    /\ reasons = NoReasons
    /\ validated = <<>>
    /\ valid_ids = <<>>
    /\ recommendations = <<>>
    /\ raised = FALSE
    /\ stages = {}
    /\ AsideIdle

ValidatorCall ==
    /\ pc = "validator_call"
    /\ validated' = validate(primary, rec_ids, top_m)
    /\ stages' = stages \cup {"validator"}
    /\ pc' = "validator_returned"
    /\ UNCHANGED <<config, aside, raw, candidates, scored, top_m, run, ret, rec_ids, reasons,
                   valid_ids, recommendations, raised>>

NextValidator == ValidatorCall

SpecValidator == InitValidator /\ [][NextValidator]_vars

(***************************************************************************)
(* Product objects                                                         *)
(*                                                                         *)
(* _to_products builds new Product objects on every call, and the Scorer   *)
(* stores its score on the objects it is handed.  heap is the sequence of  *)
(* the objects built so far; an object is named by its position.           *)
(***************************************************************************)
\* the old variables, for the specifications that do not run the pipeline
pipeline == <<config, pc, raw, candidates, scored, top_m, run, ret, rec_ids, reasons,
              validated, valid_ids, recommendations, raised, stages>>

StorageIdle ==
    /\ usePostgres = FALSE
    /\ pgRows = <<>>
    /\ jsonRows = <<>>

OrchestratorIdle ==
    /\ primaryModel = FALSE
    /\ fallbackModel = FALSE
    /\ primary \in PrimaryIds
    /\ limit = 0
    /\ pc = "idle"
    /\ raw = <<>>
    /\ candidates = <<>>
    /\ scored = <<>>
    /\ top_m = <<>>
    /\ run = NoRun
    /\ ret = RetNone
    /\ rec_ids = <<>>
    /\ reasons = NoReasons
    /\ validated = <<>>
    /\ valid_ids = <<>>
    /\ recommendations = <<>>
    /\ raised = FALSE
    /\ stages = {}

PipelineIdle == StorageIdle /\ OrchestratorIdle

\* Product.parse_obj(item): a new object, no _reco_score attribute yet
NewObject(i, r) ==
    [product |-> i, owner |-> r, has_score |-> FALSE, reco_score |-> 0, writers |-> {}]

\* variant: the objects of an earlier call are handed out again
to_objects_cached(h, products, r) ==
    IF h # <<>>
    THEN [heap |-> h,
          objs |-> [k \in 1..Len(products) |->
                      CHOOSE a \in 1..Len(h) : h[a].product = products[k]]]
    ELSE [heap |-> [k \in 1..Len(products) |-> NewObject(products[k], r)],
          objs |-> [k \in 1..Len(products) |-> k]]

\* the heap after request r built the objects of a product list, and their
\* addresses in list order
to_objects(h, products, r) ==
    [heap |-> h \o [k \in 1..Len(products) |-> NewObject(products[k], r)],
     objs |-> [k \in 1..Len(products) |-> Len(h) + k]]

\* getattr(x, "_reco_score", 0)
AttrScore(h, a) == IF h[a].has_score THEN h[a].reco_score ELSE 0

\* the loop of score: setattr(c, "_reco_score", score) for every candidate
assign_scores(h, p, objs, r) ==
    [a \in DOMAIN h |->
        IF a \in Range(objs)
        THEN [h[a] EXCEPT !.has_score = TRUE,
                          !.reco_score = reco_score(p, h[a].product),
                          !.writers = @ \cup {r}]
        ELSE h[a]]

RECURSIVE InsertByAttr(_, _, _)
InsertByAttr(h, sorted, a) ==
    IF sorted = <<>> THEN <<a>>
    ELSE IF AttrScore(h, Head(sorted)) >= AttrScore(h, a)
         THEN <<Head(sorted)>> \o InsertByAttr(h, Tail(sorted), a)
         ELSE <<a>> \o sorted

RECURSIVE SortByAttr(_, _)
SortByAttr(h, objs) ==
    IF objs = <<>> THEN <<>>
    ELSE InsertByAttr(h, SortByAttr(h, SubSeq(objs, 1, Len(objs) - 1)), objs[Len(objs)])

Reverse(s) == [k \in 1..Len(s) |-> s[Len(s) + 1 - k]]

\* variant: sorted ascending and then reversed, equal scores come out in
\* reverse input order
sort_by_attr_reversed(h, objs) == SortByAttr(h, Reverse(objs))

\* scored.sort(key=lambda x: getattr(x, "_reco_score", 0), reverse=True)
sort_by_attr(h, objs) == SortByAttr(h, objs)

\* the product ids of a list of objects
ProductsOf(h, objs) == [k \in 1..Len(objs) |-> h[objs[k]].product]

(***************************************************************************)
(* ScorerAgent.score alone, called twice on the same list                  *)
(***************************************************************************)
\* a request: its inputs, its position and its locals
NewRequest(p, lim, at) ==
    [primary |-> p, limit |-> lim, pc |-> at, raw |-> <<>>, candidates |-> <<>>,
     scored |-> <<>>, again |-> <<>>, result |-> <<>>, raced |-> FALSE]

InitScorer ==
    /\ PipelineIdle
    /\ loaded = NoneLoaded
    /\ HelperIdle
    /\ \E cands \in DistinctSeqs(ValidatorPool(primary), MaxCatalog) :
          LET built == to_objects(NoHeap, cands, "a")
          IN /\ heap = built.heap
             /\ reqs = [r \in {"a"} |->
                          [NewRequest(primary, 0, "score") EXCEPT !.candidates = built.objs]]

\* scorer.score(primary, candidates)
ScorerCall ==
    /\ reqs["a"].pc = "score"
    /\ LET h == assign_scores(heap, reqs["a"].primary, reqs["a"].candidates, "a")
       IN /\ heap' = h
          /\ reqs' = [reqs EXCEPT !["a"].scored = sort_by_attr(h, reqs["a"].candidates),
                                  !["a"].pc = "score_again"]
    /\ UNCHANGED <<pipeline, helper, loaded>>

\* the same call once more, on the same list of the same objects
ScorerCallAgain ==
    /\ reqs["a"].pc = "score_again"
    /\ LET h == assign_scores(heap, reqs["a"].primary, reqs["a"].candidates, "a")
       IN /\ heap' = h
          /\ reqs' = [reqs EXCEPT !["a"].again = sort_by_attr(h, reqs["a"].candidates),
                                  !["a"].pc = "scored_twice"]
    /\ UNCHANGED <<pipeline, helper, loaded>>

NextScorer == ScorerCall \/ ScorerCallAgain

SpecScorer == InitScorer /\ [][NextScorer]_vars

(***************************************************************************)
(* Concurrent requests                                                     *)
(*                                                                         *)
(* The endpoint is a plain def, so the server runs every request in a      *)
(* worker thread and the calls of orchestrator.recommend interleave.  A    *)
(* request steps through retrieve, build, the scoring loop, the sort and   *)
(* the rest of recommend; no model is configured.                          *)
(***************************************************************************)
Requests == {"a", "b"}

\* a speaker (with a compatibility policy) and a laptop (without one)
ConcurrentPrimaries == {p \in PrimaryIds : Product(p).category \in {"speaker", "laptop"}}

\* products both kinds of primary keep, scored differently
ConcurrentPool ==
    {c \in PoolOf(1) \cup PoolOf(4) \cup {101} :
        Product(c).category \in {"speaker", "speaker_stand", "laptop_bag", "case"}}

\* a limit that truncates and one that does not
ConcurrentLimits == {1, MaxLimit}

\* the object of a product among the objects of one get_all_products call
ObjectOf(h, objs, i) == CHOOSE a \in Range(objs) : h[a].product = i

ObjectsOf(h, objs, ids) == [k \in 1..Len(ids) |-> ObjectOf(h, objs, ids[k])]

\* recommend from the shortlist on, with rerank returning None
AfterScoring(p, sorted, lim) ==
    LET top == Shortlist(sorted)
        ids == FallbackIds(top, lim)
    IN OutputIds(AfterValidate(p, validate(p, ids, top), top, lim), lim)

\* what recommend returns when it runs alone
Alone(p, lim, products) ==
    LET cands == build(p, retrieve(p, products, RetrieveMaxResults))
    IN IF AfterBuild(cands) = "done" THEN <<>>
       ELSE AfterScoring(p, score(p, cands), lim)

InitConcurrent ==
    /\ OrchestratorIdle
    /\ usePostgres = TRUE
    /\ pgRows \in DistinctSeqs(ConcurrentPool, MaxCatalog)
    /\ jsonRows = <<>>
    /\ loaded = NoneLoaded
    /\ HelperIdle
    /\ heap = NoHeap
    /\ reqs \in {[r \in Requests |-> NewRequest(ps[r], ls[r], "retrieve")] :
                    ps \in [Requests -> ConcurrentPrimaries],
                    ls \in [Requests -> ConcurrentLimits]}

\* get_all_products() builds this request's objects, retrieve orders them
RequestRetrieve(r) ==
    /\ reqs[r].pc = "retrieve"
    /\ LET built == to_objects(heap, get_all_products(usePostgres, pgRows, jsonRows), r)
           ids == retrieve(reqs[r].primary, ProductsOf(built.heap, built.objs),
                           RetrieveMaxResults)
       IN /\ heap' = built.heap
          /\ reqs' = [reqs EXCEPT ![r].raw = ObjectsOf(built.heap, built.objs, ids),
                                  ![r].pc = "build"]
    /\ UNCHANGED <<pipeline, helper, loaded>>

RequestBuild(r) ==
    /\ reqs[r].pc = "build"
    /\ LET ids == build(reqs[r].primary, ProductsOf(heap, reqs[r].raw))
       IN reqs' = [reqs EXCEPT ![r].candidates = ObjectsOf(heap, reqs[r].raw, ids),
                               ![r].pc = IF AfterBuild(ids) = "done" THEN "done"
                                         ELSE "assign"]
    /\ UNCHANGED <<pipeline, helper, loaded, heap>>

\* the loop of score; raced records that another request is between its own
\* loop and its sort at this moment
RequestAssign(r) ==
    /\ reqs[r].pc = "assign"
    /\ heap' = assign_scores(heap, reqs[r].primary, reqs[r].candidates, r)
    /\ reqs' = [reqs EXCEPT ![r].raced = \E o \in Requests \ {r} : reqs[o].pc = "sort",
                            ![r].pc = "sort"]
    /\ UNCHANGED <<pipeline, helper, loaded>>

RequestSort(r) ==
    /\ reqs[r].pc = "sort"
    /\ reqs' = [reqs EXCEPT ![r].scored = sort_by_attr(heap, reqs[r].candidates),
                            ![r].pc = "finish"]
    /\ UNCHANGED <<pipeline, helper, loaded, heap>>

RequestFinish(r) ==
    /\ reqs[r].pc = "finish"
    /\ reqs' = [reqs EXCEPT
                   ![r].result = AfterScoring(reqs[r].primary,
                                              ProductsOf(heap, reqs[r].scored),
                                              reqs[r].limit),
                   ![r].pc = "done"]
    /\ UNCHANGED <<pipeline, helper, loaded, heap>>

NextConcurrent ==
    \E r \in Requests :
        \/ RequestRetrieve(r)
        \/ RequestBuild(r)
        \/ RequestAssign(r)
        \/ RequestSort(r)
        \/ RequestFinish(r)

SpecConcurrent == InitConcurrent /\ [][NextConcurrent]_vars

(***************************************************************************)
(* get_all_products alone, over both stores                                *)
(***************************************************************************)
\* a record without the required fields, which Product.parse_obj rejects
RejectedRecords == {UnknownId}

\* what a store may hold: products and rejected records, in any order
StoreRows == DistinctSeqs((PoolOf(1) \ PrimaryIds) \cup RejectedRecords, MaxCatalog)

InitRepository ==
    /\ OrchestratorIdle
    /\ AsideIdle
    /\ usePostgres \in BOOLEAN
    /\ pgRows \in StoreRows
    /\ jsonRows \in StoreRows

RepositoryCall ==
    /\ pc = "idle"
    /\ loaded' = get_all_products(usePostgres, pgRows, jsonRows)
    /\ pc' = "loaded"
    /\ UNCHANGED <<config, raw, candidates, scored, top_m, run, ret, rec_ids, reasons,
                   validated, valid_ids, recommendations, raised, stages, heap, reqs,
                   helper>>

NextRepository == RepositoryCall

SpecRepository == InitRepository /\ [][NextRepository]_vars

(***************************************************************************)
(* LLMReRankerAgent.rerank alone, call by call                             *)
(*                                                                         *)
(* pc follows the method: the guard on the configured models, the loop     *)
(* over [primary_model, fallback_model] with one request and one outcome   *)
(* per configured model, then the parsing of the response.                 *)
(***************************************************************************)
\* the shortlists handed to rerank
RerankShortlists == DistinctSeqs(PoolOf(1) \ PrimaryIds, MaxCatalog)

\* the values a response may list: ids of the shortlist and an id of no
\* product as numbers, the first shortlist id as a string, and a value that
\* int() rejects
RerankVals(shortlist) ==
    {RawInt(i) : i \in Range(shortlist) \cup {UnknownId}}
        \cup (IF shortlist = <<>> THEN {} ELSE {RawStr(shortlist[1])})
        \cup {RawJunk}

RerankTexts(shortlist) ==
    {TextOther(k) : k \in {"no_text", "not_json", "not_object", "bad_ids"}}
        \cup {TextObject(ids, NoReasons) :
                ids \in BoundedSeqs(RerankVals(shortlist), MaxRecIds)}
        \cup {TextObject(ids, [i \in CoercedIds(ids) |-> "because"]) :
                ids \in BoundedSeqs(RerankVals(shortlist), MaxRecIds) \ {<<>>}}

InitReranker ==
    /\ StorageIdle
    /\ AsideIdle
    /\ primaryModel \in BOOLEAN
    /\ fallbackModel \in BOOLEAN
    /\ primary = 1
    /\ limit \in Limits
    /\ pc = "rerank_enter"
    /\ raw = <<>>
    /\ candidates = <<>>
    /\ scored = <<>>
    /\ top_m \in RerankShortlists
    /\ run = NoRun
    /\ ret = RetNone
    /\ rec_ids = <<>>
    /\ reasons = NoReasons
    /\ validated = <<>>
    /\ valid_ids = <<>>
    /\ recommendations = <<>>
    /\ raised = FALSE
    /\ stages = {}

\* what SpecReranker leaves alone
rerankFrame == <<usePostgres, pgRows, jsonRows, primaryModel, fallbackModel, primary, limit,
                 raw, candidates, scored, top_m, rec_ids, reasons, validated, valid_ids,
                 recommendations, stages, aside>>

\* `if not self.primary_model and not self.fallback_model: return None, {}`
RerankEnter ==
    /\ pc = "rerank_enter"
    /\ IF ~primaryModel /\ ~fallbackModel
       THEN pc' = "rerank_returned" /\ ret' = RetNone
       ELSE pc' = "try_primary" /\ ret' = ret
    /\ UNCHANGED <<rerankFrame, run, raised>>

\* the slot the loop is at, and the slot after it
SlotOf(at) == IF at = "try_primary" THEN "primary" ELSE "fallback"

SlotSet(slot) == IF slot = "primary" THEN primaryModel ELSE fallbackModel

AfterSlot(at) == IF at = "try_primary" THEN "try_fallback" ELSE "parse"

\* `if not model_name: continue`
RerankSkip ==
    /\ pc \in {"try_primary", "try_fallback"}
    /\ ~SlotSet(SlotOf(pc))
    /\ pc' = AfterSlot(pc)
    /\ UNCHANGED <<rerankFrame, run, ret, raised>>

\* self.client.models.generate_content(model=model_name, ...) is entered
RerankRequest ==
    /\ pc \in {"try_primary", "try_fallback"}
    /\ SlotSet(SlotOf(pc))
    /\ run' = [run EXCEPT !.calls = Append(@, SlotOf(pc)), !.last = "pending"]
    /\ pc' = IF pc = "try_primary" THEN "wait_primary" ELSE "wait_fallback"
    /\ UNCHANGED <<rerankFrame, ret, raised>>

\* variant: no `break` after a response
AfterOutcome_nobreak(at, outcome) ==
    CASE outcome = "other_error" -> "rerank_returned"
      [] OTHER -> IF at = "wait_primary" THEN "try_fallback" ELSE "parse"

\* where the loop goes after a call: `break` on a response, `continue` on a
\* ClientError, out of the method on any other exception
AfterOutcome(at, outcome) ==
    CASE outcome = "text" -> "parse"
      [] outcome = "client_error" -> IF at = "wait_primary" THEN "try_fallback" ELSE "parse"
      [] outcome = "other_error" -> "rerank_returned"

\* the call returns a response or raises
RerankOutcome ==
    /\ pc \in {"wait_primary", "wait_fallback"}
    /\ \E outcome \in {"text", "client_error", "other_error"} :
          /\ \E t \in (IF outcome = "text" THEN RerankTexts(top_m)
                        ELSE {TextOther("none")}) :
                run' = [run EXCEPT !.outcomes = Append(@, outcome),
                                   !.last = outcome,
                                   !.text = IF outcome = "client_error" THEN TextOther("none")
                                            ELSE t]
          /\ pc' = AfterOutcome(pc, outcome)
          /\ raised' = (outcome = "other_error")
          /\ ret' = IF outcome = "other_error" THEN RetRaised ELSE ret
    /\ UNCHANGED rerankFrame

\* `if response is None: return None, {}`, then json.loads and the sanitising
RerankParse ==
    /\ pc = "parse"
    /\ ret' = IF run.last = "text" THEN ParseResponse(run.text, top_m, limit) ELSE RetNone
    /\ raised' = ret'.raised
    /\ pc' = "rerank_returned"
    /\ UNCHANGED <<rerankFrame, run>>

NextReranker == RerankEnter \/ RerankSkip \/ RerankRequest \/ RerankOutcome \/ RerankParse

SpecReranker == InitReranker /\ [][NextReranker]_vars

(***************************************************************************)
(* CandidateBuilderAgent.build alone                                       *)
(***************************************************************************)
\* the primaries handed to build: those of the pipeline and a watch strap
BuilderPrimaries == PrimaryIds \cup {p \in DOMAIN Table : Table[p].category = "watch_strap"}

InitBuilder ==
    /\ StorageIdle
    /\ AsideIdle
    /\ primaryModel = FALSE
    /\ fallbackModel = FALSE
    /\ primary \in BuilderPrimaries
    /\ limit = 0
    /\ pc = "builder_call"
    /\ raw \in DistinctSeqs(DOMAIN Table, MaxCatalog)
    /\ candidates = <<>>
    /\ scored = <<>>
    /\ top_m = <<>>
    /\ run = NoRun
    /\ ret = RetNone
    /\ rec_ids = <<>>
    /\ reasons = NoReasons
    /\ validated = <<>>
    /\ valid_ids = <<>>
    /\ recommendations = <<>>
    /\ raised = FALSE
    /\ stages = {}

\* builder.build(primary, raw_candidates)
BuilderCall ==
    /\ pc = "builder_call"
    /\ candidates' = build(primary, raw)
    /\ pc' = "builder_returned"
    /\ UNCHANGED <<config, aside, raw, scored, top_m, run, ret, rec_ids, reasons,
                   validated, valid_ids, recommendations, raised, stages>>

NextBuilder == BuilderCall

SpecBuilder == InitBuilder /\ [][NextBuilder]_vars

(***************************************************************************)
(* attribute_match_score alone, over every pair of catalog products        *)
(***************************************************************************)
InitAttribute ==
    /\ PipelineIdle
    /\ primary = CHOOSE p \in PrimaryIds : TRUE
    /\ heap = NoHeap /\ reqs = NoReqs /\ loaded = NoneLoaded
    /\ pool = NoPool
    /\ call \in {[fn |-> "attribute_match_score", primary |-> p, candidate |-> c,
                   returned |-> FALSE, result |-> 0] :
                     p \in DOMAIN Table, c \in DOMAIN Table}

\* attribute_match_score(primary, candidate)
AttributeCall ==
    /\ call # NoCall
    /\ call.fn = "attribute_match_score"
    /\ ~call.returned
    /\ call' = [call EXCEPT !.returned = TRUE,
                            !.result = attribute_match_score(call.primary, call.candidate)]
    /\ UNCHANGED <<pipeline, heap, reqs, loaded, pool>>

NextAttribute == AttributeCall

SpecAttribute == InitAttribute /\ [][NextAttribute]_vars

(***************************************************************************)
(* _ensure_pool called from several threads                                *)
(***************************************************************************)
PoolCallers == Requests

\* a thread about to call _ensure_pool for the first time
NewCaller == [pc |-> "start", calls |-> 0, result |-> NoneV]

InitPool ==
    /\ PipelineIdle
    /\ primary = CHOOSE p \in PrimaryIds : TRUE
    /\ heap = NoHeap /\ reqs = NoReqs /\ loaded = NoneLoaded
    /\ call = NoCall
    /\ \E avail \in BOOLEAN, dsn \in BOOLEAN :
          pool = [PSYCOPG2_AVAILABLE |-> avail,
                  POSTGRES_DSN       |-> dsn,
                  _conn_pool         |-> NoneV,
                  _pool_lock         |-> NoneV,
                  created            |-> {},
                  failures           |-> 0,
                  returned           |-> {},
                  threads            |-> [t \in PoolCallers |-> NewCaller]]

poolFrame == <<pipeline, heap, reqs, loaded, call>>

At(t, where) == pool # NoPool /\ pool.threads[t].pc = where

Goto(t, where) == [pool EXCEPT !.threads[t].pc = where]

\* _ensure_pool(): the two early returns
PoolEnter(t) ==
    /\ At(t, "start")
    /\ pool.threads[t].calls < MaxPoolCalls
    /\ pool' = [pool EXCEPT
                  !.threads[t].calls = @ + 1,
                  !.threads[t].result = NoneV,
                  !.threads[t].pc =
                      IF pool.PSYCOPG2_AVAILABLE /\ pool.POSTGRES_DSN
                      THEN "check" ELSE "start"]
    /\ UNCHANGED poolFrame

\* if _conn_pool is None:   (outside the lock)
PoolFirstCheck(t) ==
    /\ At(t, "check")
    /\ pool' = Goto(t, IF pool._conn_pool = NoneV THEN "acquire" ELSE "return")
    /\ UNCHANGED poolFrame

\* with _pool_lock:   (enter)
PoolAcquire(t) ==
    /\ At(t, "acquire")
    /\ pool._pool_lock = NoneV
    /\ pool' = [Goto(t, "locked") EXCEPT !._pool_lock = t]
    /\ UNCHANGED poolFrame

SecondCheck_skipped(g) == TRUE

\* if _conn_pool is None:   (inside the lock)
SecondCheck(g) == g = NoneV

PoolSecondCheck(t) ==
    /\ At(t, "locked")
    /\ pool' = Goto(t, IF SecondCheck(pool._conn_pool) THEN "create" ELSE "release")
    /\ UNCHANGED poolFrame

\* _conn_pool = pool.ThreadedConnectionPool(...)
PoolCreate(t) ==
    /\ At(t, "create")
    /\ LET made == "pool" \o ToString(Cardinality(pool.created) + 1)
       IN  pool' = [Goto(t, "release") EXCEPT
                      !._conn_pool = made,
                      !.created = @ \cup {made}]
    /\ UNCHANGED poolFrame

\* except Exception: _conn_pool = None
PoolCreateFails(t) ==
    /\ At(t, "create")
    /\ pool' = [Goto(t, "release") EXCEPT
                  !._conn_pool = NoneV,
                  !.failures = @ + 1]
    /\ UNCHANGED poolFrame

\* with _pool_lock:   (exit)
PoolRelease(t) ==
    /\ At(t, "release")
    /\ pool' = [Goto(t, "return") EXCEPT !._pool_lock = NoneV]
    /\ UNCHANGED poolFrame

\* return _conn_pool
PoolReturn(t) ==
    /\ At(t, "return")
    /\ pool' = [Goto(t, "start") EXCEPT
                  !.threads[t].result = pool._conn_pool,
                  !.returned = @ \cup ({pool._conn_pool} \ {NoneV})]
    /\ UNCHANGED poolFrame

NextPool ==
    \E t \in PoolCallers :
        \/ PoolEnter(t)
        \/ PoolFirstCheck(t)
        \/ PoolAcquire(t)
        \/ PoolSecondCheck(t)
        \/ PoolCreate(t)
        \/ PoolCreateFails(t)
        \/ PoolRelease(t)
        \/ PoolReturn(t)

SpecPool == InitPool /\ [][NextPool]_vars

(***************************************************************************)
(* get_products_by_text_search                                             *)
(***************************************************************************)
SearchIds == {1, 6, 12, 35, 61}

\* Product.name of the products the search runs over
ProductName(i) ==
    CASE i = 1 -> "Acme Speaker S1"
      [] i = 6 -> "Watch Strap 20mm"
      [] i = 12 -> "Speaker Stand"
      [] i = 35 -> "Face Mask"
      [] i = 61 -> "Screen Guard"
      [] OTHER -> ""

LowerChar(ch) ==
    CASE ch = "A" -> "a" [] ch = "F" -> "f" [] ch = "G" -> "g" [] ch = "M" -> "m"
      [] ch = "S" -> "s" [] ch = "W" -> "w" [] ch = "X" -> "x"
      [] OTHER -> ch

RECURSIVE LowerFrom(_, _)
LowerFrom(str, i) ==
    IF i > Len(str) THEN "" ELSE LowerChar(SubSeq(str, i, i)) \o LowerFrom(str, i + 1)

\* str.lower()
lower(str) == LowerFrom(str, 1)

\* str.strip(), the whitespace being blanks
strip(str) ==
    LET inked == {i \in 1..Len(str) : SubSeq(str, i, i) # " "}
    IN IF inked = {} THEN ""
       ELSE SubSeq(str, CHOOSE a \in inked : \A b \in inked : a <= b,
                        CHOOSE a \in inked : \A b \in inked : b <= a)

\* `q in text`, q not empty
Contains(q, text) ==
    \E i \in 1..(Len(text) - Len(q) + 1) : SubSeq(text, i, i + Len(q) - 1) = q

NameMatches(q, i) == Contains(q, lower(ProductName(i)))

TagMatches(q, i) == \E t \in Product(i).tags : Contains(q, lower(t))

\* the `for p in products` loop from position i on
RECURSIVE SearchLoop(_, _, _, _, _)
SearchLoop(products, q, lim, i, results) ==
    IF i > Len(products) THEN results
    ELSE IF NameMatches(q, products[i])
         THEN SearchLoop(products, q, lim, i + 1, Append(results, products[i]))
         ELSE LET after == IF TagMatches(q, products[i])
                           THEN Append(results, products[i]) ELSE results
              IN IF Len(after) >= lim THEN after
                 ELSE SearchLoop(products, q, lim, i + 1, after)

\* _get_postgres_products_by_text: name ILIKE or a tag ILIKE, LIMIT; no rows
\* when Postgres is off or unreachable (an empty pgRows)
_get_postgres_products_by_text(use_pg, pg, q, lim) ==
    LET Hit(i) == NameMatches(lower(q), i) \/ TagMatches(lower(q), i)
    IN IF use_pg THEN PySlice(SelectSeq(pg, Hit), lim) ELSE <<>>

get_products_by_text_search(use_pg, pg, json, query, lim) ==
    IF query = "" \/ strip(query) = ""
    THEN [path |-> "empty_query", products |-> <<>>]
    ELSE LET rows == _get_postgres_products_by_text(use_pg, pg, strip(query), lim)
         IN IF rows # <<>>
            THEN [path |-> "postgres",
                  products |-> _to_products([none |-> FALSE, rows |-> rows])]
            ELSE [path |-> "memory",
                  products |-> SearchLoop(get_all_products(use_pg, pg, json),
                                          lower(strip(query)), lim, 1, <<>>)]

SearchQueries == {"", "  ", "speaker", " Speaker ", "strap", "mask "}

SearchLimits == 1..MaxLimit

SearchStores == DistinctSeqs(SearchIds, MaxCatalog)

InitSearch ==
    /\ OrchestratorIdle
    /\ primary = CHOOSE p \in PrimaryIds : TRUE
    /\ heap = NoHeap /\ reqs = NoReqs /\ loaded = NoneLoaded
    /\ pool = NoPool
    /\ usePostgres \in BOOLEAN
    /\ pgRows \in SearchStores
    /\ jsonRows \in SearchStores
    /\ call \in {[fn |-> "get_products_by_text_search", query |-> q, limit |-> l,
                   returned |-> FALSE, path |-> "", result |-> <<>>] :
                     q \in SearchQueries, l \in SearchLimits}

SearchCall ==
    /\ call # NoCall
    /\ call.fn = "get_products_by_text_search"
    /\ ~call.returned
    /\ LET found == get_products_by_text_search(usePostgres, pgRows, jsonRows,
                                                call.query, call.limit)
       IN call' = [call EXCEPT !.returned = TRUE,
                               !.path = found.path,
                               !.result = found.products]
    /\ UNCHANGED <<pipeline, heap, reqs, loaded, pool>>

NextSearch == SearchCall

SpecSearch == InitSearch /\ [][NextSearch]_vars

(***************************************************************************)
(* Properties                                                              *)
(***************************************************************************)
\* ids of the returned entries, in order
ReturnedIds == [i \in 1..Len(recommendations) |-> recommendations[i].product]

\* recommend has returned a list
Returned == pc = "done" /\ ~raised

\* the integer ids a response names
NamedByLLM == IF run.last = "text" THEN CoercedIds(run.text.ids) ELSE {}

\* C1: closed-world containment - every id in the list recommend returns is
\* the id of a product among the first 30 of the scored list of that request,
\* whatever the response of the model names.
C1_ClosedWorld ==
    \A i \in 1..Len(recommendations) :
        recommendations[i].product \in Range(PySlice(scored, TopMLimit))

\* C1 witness: more than 30 candidates were scored, the model named an id
\* outside the shortlist next to a shortlisted one, and a list was returned
\* from the model's selection.
C1_Witness ==
    /\ Returned
    /\ Len(scored) > TopMLimit
    /\ ~RerankFailed(ret)
    /\ NamedByLLM \ Range(top_m) # {}
    /\ recommendations # <<>>

\* C2: the number of entries recommend returns is at most limit, for every
\* integer limit the request model accepts (negative ones included); stated
\* for the lists that hold at least one entry.
C2_AtMostLimit ==
    (Returned /\ recommendations # <<>>) => Len(recommendations) <= limit

\* C3: every product in the list recommend returns passes all Validator rules
\* for the primary, wherever its id came from.
C3_OnlyValidated ==
    \A i \in 1..Len(recommendations) : PassesRules(primary, recommendations[i].product)

\* C4: no failure of the LLM stage reaches the caller - once the Re-Ranker
\* has been invoked recommend raises nothing, whatever the model call did.
C4_NothingRaised == "reranker" \in stages => ~raised

\* C5: when the Re-Ranker yields no usable result, the returned list is
\* exactly the first `limit` ids of the shortlist filtered through validate,
\* in shortlist order, and no entry has a reason; stated for the limits that
\* are a count (limit >= 0).
C5_FallbackExact ==
    (Returned /\ "validator" \in stages /\ RerankFailed(ret) /\ limit >= 0) =>
        /\ ReturnedIds = validate(primary, PySlice(top_m, limit), top_m)
        /\ \A i \in 1..Len(recommendations) : recommendations[i].reason = NoneV

\* C6: when build returns an empty list, recommend returns an empty list and
\* neither the Scorer nor the Re-Ranker (no model call) nor the Validator is
\* invoked.
C6_EmptyBuildStops ==
    ("builder" \in stages /\ candidates = <<>>) =>
        /\ pc = "done"
        /\ ~raised
        /\ recommendations = <<>>
        /\ stages = {"retriever", "builder"}
        /\ run.calls = <<>>

\* C6 witness: a model is configured, the Retriever produced candidates and
\* the Candidate Builder dropped them all.
C6_Witness ==
    /\ pc = "done"
    /\ "builder" \in stages
    /\ raw # <<>>
    /\ candidates = <<>>
    /\ primaryModel

\* C7: no product with the primary's id is in the output of retrieve, in the
\* output of build, in the shortlist or in the returned list.
C7_PrimaryExcluded ==
    \A c \in Range(raw) \cup Range(candidates) \cup Range(top_m) \cup Range(ReturnedIds) :
        Product(c).id # Product(primary).id

\* C7 witness: the catalog holds the primary and a non-empty list was returned.
C7_Witness ==
    /\ Returned
    /\ primary \in Range(get_all_products(usePostgres, pgRows, jsonRows))
    /\ recommendations # <<>>

\* a phone without any of the three compatibility attributes
BarePhone(c) == Product(c).category = "phone" /\ ~explicit_ok(c)

\* C8: for a speaker primary the returned list never holds a phone that has
\* no compatibility attribute, also when the model selects that phone.
C8_NoBarePhoneForSpeaker ==
    Product(primary).category = "speaker" =>
        \A i \in 1..Len(recommendations) : ~BarePhone(recommendations[i].product)

\* C8 witness: a speaker primary, a bare phone in the catalog that the model
\* selected, and a non-empty returned list.
C8_Witness ==
    /\ Returned
    /\ Product(primary).category = "speaker"
    /\ \E c \in NamedByLLM \cap Range(raw) : BarePhone(c)
    /\ recommendations # <<>>

\* an ink or toner candidate that names another brand and is not flagged
\* cross-compatible
ForeignCartridge(p, c) ==
    LET a == Product(c).attributes
    IN /\ Product(c).category \in {"ink_cartridge", "toner"}
       /\ Truthy(Get(a, "compatible_brand"))
       /\ Get(a, "compatible_brand") # Product(p).brand
       /\ ~Truthy(Get(a, "cross_compatible"))

\* C9: for a printer primary, validate never outputs the id of an ink or
\* toner candidate whose compatible_brand is set and differs from the
\* primary's brand, unless its cross_compatible flag is set.
C9_NoForeignCartridge ==
    Product(primary).category = "printer" =>
        \A c \in Range(validated) : ~ForeignCartridge(primary, c)

\* C9 witness: validate was handed the id of such a cartridge together with
\* an id it keeps.
C9_Witness ==
    /\ pc = "validator_returned"
    /\ Product(primary).category = "printer"
    /\ \E c \in Range(rec_ids) \cap Range(top_m) : ForeignCartridge(primary, c)
    /\ validated # <<>>

\* a candidate that declares compatibility with the primary's model or brand
DeclaresMedicalCompatibility(p, c) ==
    LET a == Product(c).attributes
    IN \/ Truthy(Get(a, "compatible_with_medical_model"))
       \/ Truthy(Get(a, "compatible_brand")) /\ Get(a, "compatible_brand") = Product(p).brand
       \/ Truthy(Get(a, "compatible_model")) /\ Get(a, "compatible_model") = Product(p).model

\* C10: for a medical_equipment primary, validate never outputs the id of a
\* candidate outside the medical categories that declares no compatibility
\* with the primary's model or brand, also when the primary has no brand or
\* model.
C10_NoUndeclaredNonMedical ==
    Product(primary).category = "medical_equipment" =>
        \A c \in Range(validated) :
            \/ Product(c).category \in ValidatorMedicalCategories
            \/ DeclaresMedicalCompatibility(primary, c)

\* C10 witness: a primary without brand and model, and validate was handed
\* the id of a shortlisted non-medical candidate that declares nothing,
\* together with an id it keeps.
C10_Witness ==
    /\ pc = "validator_returned"
    /\ Product(primary).category = "medical_equipment"
    /\ Product(primary).brand = NoneV
    /\ Product(primary).model = NoneV
    /\ \E c \in Range(rec_ids) \cap Range(top_m) :
          /\ Product(c).category \notin ValidatorMedicalCategories
          /\ ~DeclaresMedicalCompatibility(primary, c)
    /\ validated # <<>>

(***************************************************************************)
(* The phone scenario                                                      *)
(***************************************************************************)
\* the phone, the case and the charger of the scenario, by their fields
IsScenarioPhone(i) ==
    /\ Product(i).category = "phone"
    /\ Product(i).brand = "Samsung"
    /\ Product(i).model = "A57"
    /\ Get(Product(i).attributes, "port_type") = "usb_c"

IsScenarioCase(i) ==
    /\ Product(i).category = "phone_case"
    /\ Get(Product(i).attributes, "compatible_model") = "A57"
    /\ Get(Product(i).attributes, "compatible_brand") = "Samsung"

IsScenarioCharger(i) ==
    /\ Product(i).category = "charger"
    /\ Get(Product(i).attributes, "port_type") = "usb_c"
    /\ Get(Product(i).attributes, "compatible_brand") = "Samsung"

ScenarioPool == Range(get_all_products(usePostgres, pgRows, jsonRows))

\* the request of the scenario: no model configured, the phone as primary,
\* a catalog made of a case and a charger (and possibly the phone itself)
ScenarioRequest ==
    /\ ~primaryModel /\ ~fallbackModel
    /\ IsScenarioPhone(primary)
    /\ \E c \in ScenarioPool : IsScenarioCase(c)
    /\ \E c \in ScenarioPool : IsScenarioCharger(c)
    /\ \A c \in ScenarioPool :
          c = primary \/ IsScenarioCase(c) \/ IsScenarioCharger(c)

\* C11: with no model configured, the Samsung A57 phone as primary and a pool
\* made of its case and its charger, recommend returns both of them for
\* every limit of at least 2.
C11_PhoneScenario ==
    (pc = "done" /\ ScenarioRequest /\ limit >= 2)
        => /\ ~raised
           /\ ScenarioPool \ {primary} \subseteq Range(ReturnedIds)

\* the charger is listed first in the catalog, the case is returned first
C11_Witness ==
    /\ Returned /\ ScenarioRequest /\ limit >= 2
    /\ Len(ReturnedIds) = 2
    /\ IsScenarioCase(ReturnedIds[1]) /\ IsScenarioCharger(ReturnedIds[2])
    /\ IsScenarioCharger(pgRows[1])

(***************************************************************************)
(* The Scorer                                                              *)
(***************************************************************************)
\* position of an object in a list of distinct objects
IndexIn(seq, x) == CHOOSE k \in 1..Len(seq) : seq[k] = x

\* out is a permutation of inp in non-increasing score order, equal scores
\* in input order
IsStableDescending(p, h, inp, out) ==
    LET s(k) == reco_score(p, h[out[k]].product)
    IN /\ Len(out) = Len(inp)
       /\ Range(out) = Range(inp)
       /\ \A i, j \in 1..Len(out) :
             i < j => /\ s(i) >= s(j)
                      /\ (s(i) = s(j) => IndexIn(inp, out[i]) < IndexIn(inp, out[j]))

\* C12: score returns a permutation of its input in non-increasing score
\* order, equal scores keep their input order, and a second call with the
\* same primary and the same list returns the same ordering.
C12_StableDeterministic ==
    LET r == reqs["a"]
    IN /\ (reqs # NoReqs /\ r.pc \in {"score_again", "scored_twice"})
            => IsStableDescending(r.primary, heap, r.candidates, r.scored)
       /\ (reqs # NoReqs /\ r.pc = "scored_twice") => r.again = r.scored

\* two calls made, the second candidate outscored the first
C12_Witness ==
    /\ reqs # NoReqs
    /\ reqs["a"].pc = "scored_twice"
    /\ Len(reqs["a"].candidates) >= 2
    /\ reqs["a"].scored # reqs["a"].candidates
    /\ reqs["a"].again = reqs["a"].scored

(***************************************************************************)
(* Independence of requests                                                *)
(***************************************************************************)
\* the objects a request holds
HeldBy(r) == Range(reqs[r].raw) \cup Range(reqs[r].candidates) \cup Range(reqs[r].scored)

JsonProducts == SelectSeq(jsonRows, IsValidRecord)

\* C14: with Postgres not enabled get_all_products returns the products of
\* the JSON file, every valid record in file order; the file is also used
\* when Postgres is enabled and yields no rows.
C14_JsonFallback ==
    pc = "loaded"
        => /\ ~usePostgres => loaded = JsonProducts
           /\ (usePostgres /\ pgRows = <<>>) => loaded = JsonProducts

(***************************************************************************)
(* The order of the model calls                                            *)
(***************************************************************************)
\* no call is entered before the previous one ended, and no slot is
\* requested twice
CallsSequential ==
    /\ Len(run.outcomes) <= Len(run.calls)
    /\ Len(run.calls) <= Len(run.outcomes) + 1
    /\ \A i, j \in 1..Len(run.calls) : run.calls[i] = run.calls[j] => i = j

\* with no model configured the client is never called and rerank returns
\* (None, {})
NoModelNoCall ==
    (~primaryModel /\ ~fallbackModel)
        => /\ run.calls = <<>>
           /\ pc = "rerank_returned" => ret = RetNone

\* the fallback is requested second, after a client error of the primary
FallbackAfterClientError(i) ==
    /\ i = 2
    /\ run.calls[1] = "primary"
    /\ Len(run.outcomes) >= 1
    /\ run.outcomes[1] = "client_error"

\* C15 as stated: no call when neither model is configured; otherwise the
\* primary model first and the fallback only after a client error of the
\* primary attempt; attempts do not overlap and no model is requested twice.
C15_CallOrder ==
    /\ NoModelNoCall
    /\ run.calls # <<>> => run.calls[1] = "primary"
    /\ \A i \in 1..Len(run.calls) :
          run.calls[i] = "fallback" => FallbackAfterClientError(i)
    /\ CallsSequential

\* C15, amended: no call when neither model is configured; otherwise the
\* primary model first when it is configured, and the fallback only after a
\* client error of the primary attempt or when no primary model is
\* configured; never after the primary returned a response; attempts do not
\* overlap and each configured model is requested at most once.
C15_CallOrderConfigured ==
    /\ NoModelNoCall
    /\ \A i \in 1..Len(run.calls) : SlotSet(run.calls[i])
    /\ (run.calls # <<>> /\ primaryModel) => run.calls[1] = "primary"
    /\ \A i \in 1..Len(run.calls) :
          run.calls[i] = "fallback"
              => \/ ~primaryModel /\ i = 1
                 \/ FallbackAfterClientError(i)
    /\ CallsSequential

\* both models configured, the primary raised a client error and the
\* fallback answered
C15_Witness ==
    /\ pc = "rerank_returned"
    /\ primaryModel /\ fallbackModel
    /\ run.calls = <<"primary", "fallback">>
    /\ run.outcomes = <<"client_error", "text">>
    /\ ~ret.none

(***************************************************************************)
(* The sanitised id list                                                   *)
(***************************************************************************)
\* the positions of a response's list that survive: the value coerces to an
\* integer, is the id of a shortlist product, and no earlier position holds
\* the same id
Surviving(ids, shortlist) ==
    {i \in 1..Len(ids) :
        /\ Coerces(ids[i])
        /\ ids[i].v \in Range(shortlist)
        /\ \A j \in 1..(i - 1) : ~(Coerces(ids[j]) /\ ids[j].v = ids[i].v)}

\* the surviving ids in the model's order
Sanitised(ids, shortlist) ==
    LET keep == Surviving(ids, shortlist)
        Nth(k) == CHOOSE i \in keep : Cardinality({j \in keep : j <= i}) = k
    IN [k \in 1..Cardinality(keep) |-> ids[Nth(k)].v]

\* the first n elements of a sequence, none for n <= 0
FirstN(seq, n) ==
    SubSeq(seq, 1, IF n <= 0 THEN 0 ELSE IF n < Len(seq) THEN n ELSE Len(seq))

RerankSucceeded == pc = "rerank_returned" /\ ~ret.raised /\ ~ret.none

\* C16: the ids rerank returns on success are the first `limit` elements of
\* the model's recommendation_ids without the values that do not coerce to
\* an integer, without the ids of no shortlist product, and without
\* repeated ids, in the model's order.
C16_SanitisedPrefix ==
    RerankSucceeded => ret.ids = FirstN(Sanitised(run.text.ids, top_m), limit)

\* C17: when the response text is not JSON, recommendation_ids is not a
\* list, or no id survives the sanitising, rerank returns (None, {}) as
\* when no model responded, and no model is requested after the response.
C17_UnusableResponse ==
    /\ \A i \in 1..Len(run.outcomes) : run.outcomes[i] = "text" => i = Len(run.calls)
    /\ ( /\ pc = "rerank_returned"
         /\ run.last = "text"
         /\ \/ run.text.kind \in {"not_json", "bad_ids"}
            \/ run.text.kind = "object" /\ Surviving(run.text.ids, top_m) = {} )
          => /\ ret = RetNone
             /\ run.calls[Len(run.calls)] = "fallback" \/ "fallback" \notin Range(run.calls)

\* the primary answered with ids of which none survives, a fallback model
\* is configured and was not requested
C17_Witness ==
    /\ pc = "rerank_returned"
    /\ fallbackModel
    /\ run.calls = <<"primary">>
    /\ run.last = "text"
    /\ run.text.kind = "object"
    /\ Len(run.text.ids) >= 2
    /\ top_m # <<>>
    /\ ret = RetNone

(***************************************************************************)
(* The second fallback                                                     *)
(***************************************************************************)
\* the shortlist products of the primary's category, in shortlist order
SameCategoryShortlist ==
    LET SameCat(c) == Product(c).category = Product(primary).category
    IN SelectSeq(top_m, SameCat)

RetrievedFrom == get_all_products(usePostgres, pgRows, jsonRows)

SameCategory(c) == Product(c).category = Product(primary).category

\* another category, the primary's meaningful brand
BrandMate(c) ==
    /\ ~SameCategory(c)
    /\ is_meaningful_brand(Product(primary).brand)
    /\ Product(c).brand = Product(primary).brand

\* the group of a product: same category, same brand, the rest
RetrieveGroup(c) == IF SameCategory(c) THEN 1 ELSE IF BrandMate(c) THEN 2 ELSE 3

\* C19: in the output of retrieve the products of the primary's category
\* come first, then the products of other categories with the primary's
\* meaningful brand, then the rest, each group in catalog order.
C19_GroupOrder ==
    "retriever" \in stages
        => \A i, j \in 1..Len(raw) :
              i < j => /\ RetrieveGroup(raw[i]) <= RetrieveGroup(raw[j])
                       /\ RetrieveGroup(raw[i]) = RetrieveGroup(raw[j])
                            => IndexIn(RetrievedFrom, raw[i]) < IndexIn(RetrievedFrom, raw[j])

\* the unrelated consumer-electronics categories of the medical branch
ConsumerElectronics == {"phone", "charger", "speaker", "phone_case", "screen_guard"}

IsConsumerElectronics(c) == Product(c).category \in ConsumerElectronics

\* C20: for a medical_equipment primary retrieve drops no candidate, and
\* among the products that are neither of its category nor of its brand,
\* the consumer-electronics products come after all the others.
C20_MedicalPushBack ==
    ("retriever" \in stages /\ Product(primary).category = "medical_equipment")
        => /\ Range(raw) = Range(RetrievedFrom) \ {primary}
           /\ \A i, j \in 1..Len(raw) :
                 ( /\ RetrieveGroup(raw[i]) = 3
                   /\ RetrieveGroup(raw[j]) = 3
                   /\ IsConsumerElectronics(raw[i])
                   /\ ~IsConsumerElectronics(raw[j]) ) => j < i

(***************************************************************************)
(* The Candidate Builder                                                   *)
(***************************************************************************)
\* the attributes that count as an explicit compatibility declaration
ExplicitCompatibilityKeys(p) ==
    {"compatible_model", "compatible_brand", "compatible_with",
     "compatible_with_" \o Product(p).category,
     "compatible_with_speaker", "compatible_with_medical_model"}

\* the candidate declares a truthy explicit compatibility attribute or shares
\* at least two tags with the primary
HasEvidence(p, c) ==
    \/ \E k \in ExplicitCompatibilityKeys(p) : Truthy(Get(Product(c).attributes, k))
    \/ Cardinality(Product(p).tags \cap Product(c).tags) >= 2

\* the candidates the builder is to keep
Admitted(p, c) ==
    /\ c # p
    /\ IF Product(p).category \in DOMAIN COMPATIBILITY_MAP
       THEN /\ Product(c).category \in COMPATIBILITY_MAP[Product(p).category]
            /\ Product(c).category = Product(p).category \/ HasEvidence(p, c)
       ELSE HasEvidence(p, c)
    /\ ~(Product(p).category = "watch_strap" /\ Product(c).category = "screen_guard")

\* C21: build returns, in input order, exactly the raw candidates other than
\* the primary that are in the allowed categories of the primary (with
\* evidence when of another category) or, when the map has no entry for the
\* primary's category, that carry evidence; never a screen_guard for a
\* watch_strap.
C21_BuildExact ==
    pc = "builder_returned"
        => LET Keep(c) == Admitted(primary, c)
           IN candidates = SelectSeq(raw, Keep)

\* a primary without a map entry: a product of its own category without
\* evidence is dropped, one with evidence is kept
C21_Witness ==
    /\ pc = "builder_returned"
    /\ ~HasPolicy(Product(primary).category)
    /\ Len(raw) = 2
    /\ Len(candidates) = 1
    /\ \E c \in Range(raw) \ Range(candidates) :
          c # primary /\ Product(c).category = Product(primary).category

(***************************************************************************)
(* The score                                                               *)
(***************************************************************************)
\* the score as the scoring policy states it
StatedScore(p, c) ==
    attribute_match_score(p, c)
        + (IF /\ is_meaningful_brand(Product(p).brand)
              /\ is_meaningful_brand(Product(c).brand)
              /\ Product(p).brand = Product(c).brand
           THEN 30 ELSE 0)
        + 10 * Cardinality(Product(p).tags \cap Product(c).tags)
        + (IF HasPolicy(Product(p).category)
              /\ Product(c).category \in COMPATIBILITY_MAP[Product(p).category]
           THEN 20 ELSE 0)
        + (IF Truthy(RecordImageUrl(c)) THEN 2 ELSE 0)

\* C22: the score stored on a candidate is the attribute score, plus 30 for
\* equal meaningful brands, plus 10 per shared tag, plus 20 for a category
\* in the primary's map entry, plus 2 when the candidate's catalog record
\* has an image URL.
C22_ScoreSum ==
    (reqs # NoReqs /\ reqs["a"].pc \in {"score_again", "scored_twice"})
        => \A a \in Range(reqs["a"].candidates) :
              heap[a].reco_score = StatedScore(reqs["a"].primary, heap[a].product)

(***************************************************************************)
(* The attribute score                                                     *)
(***************************************************************************)
\* attribute_match_score has returned for this pair
AttributeScored ==
    call # NoCall /\ call.fn = "attribute_match_score" /\ call.returned

\* the candidate declares attribute k, with value v
Declares(c, k, v) ==
    /\ Truthy(Get(Product(c).attributes, k))
    /\ Get(Product(c).attributes, k) = v

MedicalPair ==
    /\ AttributeScored
    /\ Product(call.primary).category = "medical_equipment"
    /\ call.candidate # call.primary

\* C23: for a medical_equipment primary and a candidate of a medical
\* accessory category the score includes the 80 points exactly when the
\* candidate's compatible_model is the primary's model or its
\* compatible_brand is the primary's brand, either one alone.
C23_MedicalEighty ==
    (MedicalPair /\ Product(call.candidate).category \in MedicalAccessoryCategories)
        => (call.result >= 80
              <=> \/ Declares(call.candidate, "compatible_model", Product(call.primary).model)
                  \/ Declares(call.candidate, "compatible_brand", Product(call.primary).brand))

\* C24: for a medical_equipment primary every candidate the builder lets
\* through, a medical_equipment candidate included, gets the 60 points when
\* its compatible_with_medical_model is the primary's model and the 10
\* points when it shares a tag with the primary.
C24_MedicalAnyCategory ==
    (MedicalPair /\ BuildKeeps(call.primary, call.candidate))
        => call.result
             >= (IF Declares(call.candidate, "compatible_with_medical_model",
                             Product(call.primary).model)
                 THEN 60 ELSE 0)
                + (IF Product(call.primary).tags \cap Product(call.candidate).tags # {}
                   THEN 10 ELSE 0)

\* C28: a candidate with no attributes and no tags scores 0, whatever the
\* primary.
C28_NothingDeclaredNothingScored ==
    ( /\ AttributeScored
      /\ Product(call.candidate).attributes = NoAttrs
      /\ Product(call.candidate).tags = {} )
        => call.result = 0

(***************************************************************************)
(* Pool initialisation                                                     *)
(***************************************************************************)
\* C25: whatever the interleaving of the callers of _ensure_pool, at most
\* one pool is ever created, every pool a caller returns is that pool, the
\* global is either unset or that pool, and as long as no creation has
\* succeeded the global stays unset, so that the next caller tries again.
C25_PoolOnce ==
    pool # NoPool =>
        /\ Cardinality(pool.created) <= 1
        /\ pool.returned \subseteq pool.created
        /\ pool._conn_pool \in pool.created \cup {NoneV}
        /\ (pool.created = {} => pool._conn_pool = NoneV)
        /\ \A t \in PoolCallers :
              pool.threads[t].pc = "create" =>
                  pool._pool_lock = t /\ pool._conn_pool = NoneV

\* a creation failed, a later call created the pool, and both callers
\* returned it
C25_Witness ==
    /\ pool # NoPool
    /\ pool.failures >= 1
    /\ pool.created # {}
    /\ \A t \in PoolCallers :
          pool.threads[t].pc = "start" /\ pool.threads[t].result \in pool.created

FromFallback == RerankFailed(ret) \/ validated = <<>>

\* C27: when the returned ids come from a fallback every entry has reason
\* none; an entry carries a reason only if the LLM selected its id and the
\* Validator kept it.
C27_FallbackNoReason ==
    Returned =>
        \A i \in 1..Len(recommendations) :
            LET e == recommendations[i]
            IN  /\ FromFallback => e.reason = NoneV
                /\ e.reason # NoneV =>
                      /\ ~RerankFailed(ret)
                      /\ e.product \in Range(ret.ids)
                      /\ e.product \in Range(validated)

(***************************************************************************)
(* The text search                                                         *)
(***************************************************************************)
\* C29: the in-memory text search returns at most `limit` products.
C29_SearchAtMostLimit ==
    ( /\ call # NoCall
      /\ call.fn = "get_products_by_text_search"
      /\ call.returned
      /\ call.path = "memory" )
        => Len(call.result) <= call.limit

====
